---------------------------- MODULE Spec2Model ----------------------------
(***************************************************************************)
(* MenuQR (digimenu): the express route handlers of server/routes.ts over  *)
(* the DatabaseStorage of server/storage.ts and the tables of               *)
(* shared/schema.ts, with the Stripe provider as an external collaborator.  *)
(*                                                                         *)
(* The database tables are sets of rows.  A request handler that runs      *)
(* alone is one action (the sequential specifications); a handler that     *)
(* overlaps with another one is cut at its awaits (the race                *)
(* specifications), because node runs another request while one awaits.    *)
(***************************************************************************)
EXTENDS Integers, Sequences, FiniteSets, TLC

VARIABLES
    users,           \* table users: rows [id, email, plan, stripeCustomerId,
                     \*   stripeSubscriptionId, subscriptionStatus]
    restaurants,     \* table restaurants: rows [id, userId, name, slug]
    categories,      \* table categories: rows [id, restaurantId]
    products,        \* table products: rows [id, restaurantId, categoryId, isActive]
    menuViews,       \* table menu_views: the restaurantId of each row, in insertion order
    nextProductId,   \* the id the next inserted product row gets
    nextCategoryId,  \* the id the next inserted category row gets
    stripe,          \* the provider: [enabled, customers, products, prices, subscriptions]
    reqs,            \* requests in flight, cut at their awaits (race specifications)
    uploads,         \* the files of the uploads directory: [id, fieldname]
    resp             \* the response of the request handled last

vars == <<users, restaurants, categories, products, menuViews,
          nextProductId, nextCategoryId, stripe, reqs, uploads, resp>>

-----------------------------------------------------------------------------
(* Bounds of the model *)

MaxProducts == 2        \* product rows ever inserted (Spec)
MaxGateProducts == 6    \* product rows ever inserted (SpecGate)
MaxMenuProducts == 2    \* product rows ever inserted (SpecMenu)
MaxCategories == 1      \* category rows ever inserted
MaxViews == 2           \* menu_views rows ever inserted
MaxCustomers == 3       \* customers ever created at the provider
MaxNameLen == 3         \* characters of a restaurant name (SpecSlug)
MaxUsers == 2           \* user rows ever inserted (SpecRegister)
MaxUploads == 1         \* files ever written to the uploads directory
MaxAppProducts == 1     \* product rows ever inserted (SpecApp)
MaxReqs == 2            \* overlapping requests (race specifications)

(* Program constants *)

FreeProductLimit == 5   \* routes.ts: if (productCount >= 5)

NoId == 0               \* a null id column / an absent id

-----------------------------------------------------------------------------
(* generateSlug.  A string is the sequence of its characters. *)

\* String.prototype.toLowerCase, on the capital letters the names use.
LowerCaseOf ==
    [c \in {"A", "B", "C", "D", "J"} |->
        CASE c = "A" -> "a" [] c = "B" -> "b" [] c = "C" -> "c"
          [] c = "D" -> "d" [] c = "J" -> "j"]

toLowerCase(str) ==
    [i \in 1..Len(str) |->
        IF str[i] \in DOMAIN LowerCaseOf THEN LowerCaseOf[str[i]] ELSE str[i]]

\* The character classes of the regular expressions: a-z, 0-9, \s and '-'.
LowerLetters == {"a", "b", "c", "d", "e", "i", "j", "n", "o", "r", "s", "x"}

Digits == {"1"}

Whitespace == {" "}

Hyphen == {"-"}

\* .replace(/[^a-z0-9\s-]/g, ''): every character outside the class is removed.
removeSpecialChars(str) ==
    SelectSeq(str, LAMBDA c : c \in LowerLetters \cup Digits \cup Whitespace \cup Hyphen)

\* .replace(/X+/g, by): every maximal run of characters of `class` becomes one `by`.
RECURSIVE replaceRuns(_, _, _)
replaceRuns(str, class, by) ==
    IF str = <<>> THEN <<>>
    ELSE LET front == SubSeq(str, 1, Len(str) - 1)
             last == str[Len(str)]
         IN  IF last \notin class
             THEN Append(replaceRuns(front, class, by), last)
             ELSE IF front /= <<>> /\ front[Len(front)] \in class
             THEN replaceRuns(front, class, by)
             ELSE Append(replaceRuns(front, class, by), by)

\* The characters of `class` removed from both ends of the string.
RECURSIVE trimChars(_, _)
trimChars(str, class) ==
    IF str = <<>> THEN <<>>
    ELSE IF str[1] \in class THEN trimChars(Tail(str), class)
    ELSE IF str[Len(str)] \in class THEN trimChars(SubSeq(str, 1, Len(str) - 1), class)
    ELSE str

\* String.prototype.trim: white space removed from both ends.
trim(str) == trimChars(str, Whitespace)

\* generateSlug(name): the chain of routes.ts, in its order.
generateSlug(name) ==
    trim(replaceRuns(replaceRuns(removeSpecialChars(toLowerCase(name)),
                                 Whitespace, "-"),
                     Hyphen, "-"))

\* The names of the two registered restaurants, and a name with trailing blanks.
JoesDiner == <<"J", "o", "e", "'", "s", " ", "D", "i", "n", "e", "r">>

CasaDaAna == <<"C", "a", "s", "a", " ", "d", "a", " ", "A", "n", "a">>

JoesDinerPadded == JoesDiner \o <<" ", " ">>

-----------------------------------------------------------------------------
(* Rows and sentinels *)

NoUser == [id |-> NoId, email |-> "", plan |-> "none", stripeCustomerId |-> NoId,
           stripeSubscriptionId |-> NoId, subscriptionStatus |-> "null"]

NoRestaurant == [id |-> NoId, userId |-> NoId, name |-> <<>>, slug |-> <<>>]

NoProduct == [id |-> NoId, restaurantId |-> NoId, categoryId |-> NoId, isActive |-> FALSE]

UserIds == {1, 2}

\* Whoever sends a request: a session of a registered user, or no session.
Sessions == UserIds \cup {NoId}

\* The slugs the public asks for: one that resolves, one that does not.
Slugs == {<<"j", "o", "e", "s", "-", "d", "i", "n", "e", "r">>, <<"x">>}

\* A user as POST /api/register inserts it.
FreeUser(id, email) ==
    [id |-> id, email |-> email, plan |-> "free", stripeCustomerId |-> NoId,
     stripeSubscriptionId |-> NoId, subscriptionStatus |-> "null"]

\* A user after a completed upgrade, with the ids the provider gave.
PremiumUser(id, email, stripeId) ==
    [id |-> id, email |-> email, plan |-> "premium", stripeCustomerId |-> stripeId,
     stripeSubscriptionId |-> stripeId, subscriptionStatus |-> "active"]

\* A restaurant as POST /api/register inserts it.
RegisteredRestaurant(id, userId, name) ==
    [id |-> id, userId |-> userId, name |-> name, slug |-> generateSlug(name)]

RegisteredRestaurants ==
    { RegisteredRestaurant(1, 1, JoesDiner), RegisteredRestaurant(2, 2, CasaDaAna) }

-----------------------------------------------------------------------------
(* DatabaseStorage: the queries *)

getUser(id) ==
    IF \E u \in users : u.id = id
    THEN CHOOSE u \in users : u.id = id
    ELSE NoUser

getRestaurantByUserId(userId) ==
    IF \E r \in restaurants : r.userId = userId
    THEN CHOOSE r \in restaurants : r.userId = userId
    ELSE NoRestaurant

getRestaurantBySlug(slug) ==
    IF \E r \in restaurants : r.slug = slug
    THEN CHOOSE r \in restaurants : r.slug = slug
    ELSE NoRestaurant

getCategoriesByRestaurant(restaurantId) ==
    {c \in categories : c.restaurantId = restaurantId}

getProduct(id) ==
    IF \E p \in products : p.id = id
    THEN CHOOSE p \in products : p.id = id
    ELSE NoProduct

\* The query without its where clause.
getProductsByRestaurant_All(restaurantId) == products

getProductsByRestaurant(restaurantId) ==
    {p \in products : p.restaurantId = restaurantId}

getProductCount(restaurantId) ==
    Cardinality({p \in products : p.restaurantId = restaurantId /\ p.isActive})

getMenuViewCount(restaurantId) ==
    Cardinality({i \in 1..Len(menuViews) : menuViews[i] = restaurantId})

\* products.category_id references categories.id: an insert or update naming a
\* category row that does not exist is refused by the database.
ForeignKeyOk(categoryId) ==
    categoryId = NoId \/ \E c \in categories : c.id = categoryId

-----------------------------------------------------------------------------
(* passport: the identity of a request *)

\* deserializeUser: req.user is the users row of the session's id, read when
\* the request arrives.
deserializeUser(session) ==
    IF session = NoId THEN NoUser ELSE getUser(session)

isAuthenticated(user) == user /= NoUser

-----------------------------------------------------------------------------
(* Request bodies and responses *)

\* The categoryId of a body: left out, the string "none", or a category id.
CatAbsent == [tag |-> "absent", id |-> NoId]

CatNone == [tag |-> "none", id |-> NoId]

CatRef(id) == [tag |-> "id", id |-> id]

\* A body that insertProductSchema refuses (a missing name, a price that is no
\* decimal string, ...).
InvalidBody == [valid |-> FALSE, isActive |-> "absent", categoryId |-> CatAbsent]

ProductBodies(categoryInputs) ==
    {InvalidBody} \cup
    [valid : {TRUE}, isActive : {"absent", "true", "false"}, categoryId : categoryInputs]

\* Bodies that leave the category out.
PlainBodies == ProductBodies({CatAbsent})

NoResp ==
    [op |-> "none", session |-> NoId, target |-> NoId, status |-> 0, error |-> "none",
     failed |-> "none", message |-> "", subscriptionId |-> NoId, created |-> FALSE,
     slug |-> <<>>, url |-> <<>>, stats |-> <<>>, restaurant |-> NoId, products |-> {}, categories |-> {}]

Reply(op, session, target, status, error) ==
    [NoResp EXCEPT !.op = op, !.session = session, !.target = target,
                   !.status = status, !.error = error]

-----------------------------------------------------------------------------
(* The authorization gate, as the handlers compute it *)

\* The limit compared with > instead of >=.
PlanLimitReached_OffByOne(user, restaurant) ==
    user.plan = "free" /\ getProductCount(restaurant.id) > FreeProductLimit

\* POST /api/products: the free plan's product limit.
PlanLimitReached(user, restaurant) ==
    user.plan = "free" /\ getProductCount(restaurant.id) >= FreeProductLimit

\* A handler that parses the body before it looks at the plan.
CreateRejection_ValidatesFirst(user, restaurant, body) ==
    IF ~body.valid THEN "Validation"
    ELSE IF PlanLimitReached(user, restaurant) THEN "PlanLimit"
    ELSE "none"

\* POST /api/products: the plan gate comes before insertProductSchema.parse.
\* The error a creation is refused with, "none" when it passes both.
CreateRejection(user, restaurant, body) ==
    IF PlanLimitReached(user, restaurant) THEN "PlanLimit"
    ELSE IF ~body.valid THEN "Validation"
    ELSE "none"

\* The ownership test without the comparison of restaurant ids.
OwnsProduct_AnyRestaurant(restaurant, product) ==
    restaurant /= NoRestaurant

\* PUT, DELETE /api/products/:id: the product belongs to the caller's restaurant.
OwnsProduct(restaurant, product) ==
    restaurant /= NoRestaurant /\ product.restaurantId = restaurant.id

\* "Handle 'none' categoryId as null"; a column the body leaves out keeps `old`.
CategoryColumn(body, old) ==
    CASE body.categoryId.tag = "absent" -> old
      [] body.categoryId.tag = "none"   -> NoId
      [] OTHER                          -> body.categoryId.id

ActiveColumn(body, old) ==
    CASE body.isActive = "absent" -> old
      [] body.isActive = "true"   -> TRUE
      [] OTHER                    -> FALSE

\* A parse that keeps the restaurantId of the body.
RestaurantColumn_FromBody(body, restaurantId) ==
    IF "restaurantId" \in DOMAIN body THEN body.restaurantId ELSE restaurantId

\* insertProductSchema omits restaurantId, so the parse drops the key of the
\* body: the column is `restaurantId`, the creator's restaurant on insert
\* ({...data, restaurantId: restaurant.id}) and the stored one on update.
RestaurantColumn(body, restaurantId) == restaurantId

\* The file part of a multipart body: "none", "image" (a type of allowedTypes)
\* or "other" (any other type).  A body without the part carries no file.
FileOf(body) == IF "file" \in DOMAIN body THEN body.file ELSE "none"

\* multer fileFilter: allowedTypes.includes(file.mimetype), else cb(new Error(...)).
fileFilter(file) == file /= "other"

\* multer.diskStorage: a file that passed the filter is written to the uploads
\* directory under a fresh name that starts with the field name.
diskStorage(file, fieldname) ==
    IF file = "none"
    THEN uploads
    ELSE uploads \cup {[id |-> Cardinality(uploads) + 1, fieldname |-> fieldname]}

\* What the sequential catalog handlers leave alone.
CatalogFrame == UNCHANGED <<users, restaurants, stripe, reqs>>

-----------------------------------------------------------------------------
(* Catalog handlers, each run alone *)

\* POST /api/products: upload.single('image'), then the handler.  `cap` bounds
\* the rows ever inserted.
PostProducts(session, body, cap) ==
    LET user == deserializeUser(session)
        restaurant == getRestaurantByUserId(user.id)
        categoryId == CategoryColumn(body, NoId)
        row == [id |-> nextProductId,
                restaurantId |-> RestaurantColumn(body, restaurant.id),
                categoryId |-> categoryId, isActive |-> ActiveColumn(body, TRUE)]
        reply(status, error) == Reply("postProducts", session, NoId, status, error)
    IN  /\ CatalogFrame
        /\ UNCHANGED <<categories, menuViews, nextCategoryId>>
        /\ IF ~fileFilter(FileOf(body))
           THEN resp' = reply(500, "Upload") /\ UNCHANGED <<products, nextProductId, uploads>>
           ELSE /\ Cardinality(diskStorage(FileOf(body), "image")) <= MaxUploads
                /\ uploads' = diskStorage(FileOf(body), "image")
                /\ IF ~isAuthenticated(user)
                   THEN resp' = reply(401, "Unauthenticated") /\ UNCHANGED <<products, nextProductId>>
                   ELSE IF restaurant = NoRestaurant
                   THEN resp' = reply(404, "RestaurantNotFound") /\ UNCHANGED <<products, nextProductId>>
                   ELSE IF CreateRejection(user, restaurant, body) /= "none"
                   THEN /\ resp' = reply(400, CreateRejection(user, restaurant, body))
                        /\ UNCHANGED <<products, nextProductId>>
                   ELSE IF ~ForeignKeyOk(categoryId)
                   THEN resp' = reply(400, "Database") /\ UNCHANGED <<products, nextProductId>>
                   ELSE /\ nextProductId <= cap
                        /\ products' = products \cup {row}
                        /\ nextProductId' = nextProductId + 1
                        /\ resp' = [reply(200, "none") EXCEPT !.target = row.id]

\* A denial that tells which restaurant the product belongs to.
NotOwnerReply_Leaky(op, session, id) ==
    [Reply(op, session, id, 403, "NotOwner") EXCEPT
        !.restaurant = getProduct(id).restaurantId]

\* res.status(403).json({ message: "Sem permissão" }): the message and nothing else.
NotOwnerReply(op, session, id) ==
    Reply(op, session, id, 403, "NotOwner")

\* PUT /api/products/:id: upload.single('image'), then the handler.
PutProduct(session, id, body) ==
    LET user == deserializeUser(session)
        product == getProduct(id)
        restaurant == getRestaurantByUserId(user.id)
        categoryId == CategoryColumn(body, product.categoryId)
        row == [product EXCEPT !.restaurantId = RestaurantColumn(body, product.restaurantId),
                               !.categoryId = categoryId,
                               !.isActive = ActiveColumn(body, product.isActive)]
        reply(status, error) == Reply("putProduct", session, id, status, error)
    IN  /\ CatalogFrame
        /\ UNCHANGED <<categories, menuViews, nextCategoryId, nextProductId>>
        /\ IF ~fileFilter(FileOf(body))
           THEN resp' = reply(500, "Upload") /\ UNCHANGED <<products, uploads>>
           ELSE /\ Cardinality(diskStorage(FileOf(body), "image")) <= MaxUploads
                /\ uploads' = diskStorage(FileOf(body), "image")
                /\ IF ~isAuthenticated(user)
                   THEN resp' = reply(401, "Unauthenticated") /\ UNCHANGED products
                   ELSE IF product = NoProduct
                   THEN resp' = reply(404, "ProductNotFound") /\ UNCHANGED products
                   ELSE IF ~OwnsProduct(restaurant, product)
                   THEN resp' = NotOwnerReply("putProduct", session, id) /\ UNCHANGED products
                   ELSE IF ~body.valid
                   THEN resp' = reply(400, "Validation") /\ UNCHANGED products
                   ELSE IF ~ForeignKeyOk(categoryId)
                   THEN resp' = reply(400, "Database") /\ UNCHANGED products
                   ELSE /\ products' = (products \ {product}) \cup {row}
                        /\ resp' = reply(200, "none")

\* DELETE /api/products/:id.
DeleteProduct(session, id) ==
    LET user == deserializeUser(session)
        product == getProduct(id)
        restaurant == getRestaurantByUserId(user.id)
        reply(status, error) == Reply("deleteProduct", session, id, status, error)
    IN  /\ CatalogFrame
        /\ UNCHANGED <<categories, menuViews, nextCategoryId, nextProductId, uploads>>
        /\ IF ~isAuthenticated(user)
           THEN resp' = reply(401, "Unauthenticated") /\ UNCHANGED products
           ELSE IF product = NoProduct
           THEN resp' = reply(404, "ProductNotFound") /\ UNCHANGED products
           ELSE IF ~OwnsProduct(restaurant, product)
           THEN resp' = NotOwnerReply("deleteProduct", session, id) /\ UNCHANGED products
           ELSE /\ products' = products \ {product}
                /\ resp' = reply(200, "none")

\* POST /api/categories.  `valid`: insertCategorySchema accepts the body.
PostCategories(session, valid) ==
    LET user == deserializeUser(session)
        restaurant == getRestaurantByUserId(user.id)
        row == [id |-> nextCategoryId, restaurantId |-> restaurant.id]
        reply(status, error) == Reply("postCategories", session, NoId, status, error)
    IN  /\ CatalogFrame
        /\ UNCHANGED <<products, menuViews, nextProductId, uploads>>
        /\ IF ~isAuthenticated(user)
           THEN resp' = reply(401, "Unauthenticated") /\ UNCHANGED <<categories, nextCategoryId>>
           ELSE IF restaurant = NoRestaurant
           THEN resp' = reply(404, "RestaurantNotFound") /\ UNCHANGED <<categories, nextCategoryId>>
           ELSE IF ~valid
           THEN resp' = reply(400, "Validation") /\ UNCHANGED <<categories, nextCategoryId>>
           ELSE /\ nextCategoryId <= MaxCategories
                /\ categories' = categories \cup {row}
                /\ nextCategoryId' = nextCategoryId + 1
                /\ resp' = [reply(200, "none") EXCEPT !.target = row.id]

\* The menu without the filter on isActive.
PublicProducts_Unfiltered(restaurantId) ==
    getProductsByRestaurant(restaurantId)

\* The products GET /api/menu/:slug answers with: products.filter(p => p.isActive).
PublicProducts(restaurantId) ==
    {p \in getProductsByRestaurant(restaurantId) : p.isActive}

\* A recording that inserts the view twice.
recordMenuView_Twice(restaurantId) ==
    Append(Append(menuViews, restaurantId), restaurantId)

\* storage.recordMenuView: one insert into menu_views, for the given restaurant.
recordMenuView(restaurantId) ==
    Append(menuViews, restaurantId)

\* GET /api/menu/:slug.  `recordFails`: the insert into menu_views throws.
GetMenu(slug, recordFails) ==
    LET restaurant == getRestaurantBySlug(slug)
        reply(status, error) ==
            [Reply("getMenu", NoId, NoId, status, error) EXCEPT !.slug = slug]
    IN  /\ CatalogFrame
        /\ UNCHANGED <<products, categories, nextProductId, nextCategoryId, uploads>>
        /\ IF restaurant = NoRestaurant
           THEN resp' = reply(404, "MenuNotFound") /\ UNCHANGED menuViews
           ELSE IF recordFails
           THEN /\ resp' = [reply(500, "Database") EXCEPT !.failed = "recordMenuView"]
                /\ UNCHANGED menuViews
           ELSE /\ Len(menuViews) < MaxViews
                /\ menuViews' = recordMenuView(restaurant.id)
                /\ resp' = [reply(200, "none") EXCEPT
                               !.restaurant = restaurant.id,
                               !.products = PublicProducts(restaurant.id),
                               !.categories = getCategoriesByRestaurant(restaurant.id)]

-----------------------------------------------------------------------------------------------------------------------------------------------------------------------------------------------------------------------------
(* The database after two registrations and the upgrades of `emails` *)

\* The provider after one completed upgrade per email: customer, product, price
\* and subscription k belong to the k-th.
ProviderAfterUpgrades(emails) ==
    [enabled |-> TRUE, customers |-> emails, products |-> Len(emails),
     prices |-> Len(emails),
     subscriptions |-> [k \in 1..Len(emails) |-> [customer |-> k, status |-> "incomplete"]]]

Registered ==
    /\ restaurants = RegisteredRestaurants
    /\ categories = {}
    /\ products = {}
    /\ menuViews = <<>>
    /\ nextProductId = 1
    /\ nextCategoryId = 1
    /\ reqs = <<>>
    /\ uploads = {}
    /\ resp = NoResp

-----------------------------------------------------------------------------
(* Spec: products and categories of two restaurants, requests handled one *)
(* at a time, sent by either owner or without a session                   *)

Init ==
    /\ Registered
    /\ users = {FreeUser(1, "joe@x"), PremiumUser(2, "ana@x", 1)}
    /\ stripe = ProviderAfterUpgrades(<<"ana@x">>)

Next ==
    \/ \E s \in Sessions, b \in PlainBodies : PostProducts(s, b, MaxProducts)
    \/ \E s \in Sessions, id \in 1..MaxProducts, b \in PlainBodies : PutProduct(s, id, b)
    \/ \E s \in Sessions, id \in 1..MaxProducts : DeleteProduct(s, id)
    \/ \E s \in Sessions, v \in BOOLEAN : PostCategories(s, v)

Spec == Init /\ [][Next]_vars

\* The product a response is about, and the restaurant of who asked.
RespProduct(r) == getProduct(r.target)

RespRestaurant(r) == getRestaurantByUserId(r.session)

(* C1: an update or delete of a product by an authenticated identity whose
   restaurant is not the product's restaurant is answered 403 (not owner) and
   leaves the products table as it was, for premium and free identities. *)
C1_CrossTenantDenied ==
    [][ ( /\ resp'.op \in {"putProduct", "deleteProduct"}
          /\ isAuthenticated(deserializeUser(resp'.session))
          /\ RespProduct(resp') /= NoProduct
          /\ RespProduct(resp').restaurantId /= RespRestaurant(resp').id )
        => ( /\ resp'.status = 403
             /\ resp'.error = "NotOwner"
             /\ products' = products ) ]_vars

\* The premium user was refused on an existing product of the free user's restaurant.
C1_Witness ==
    /\ resp.op \in {"putProduct", "deleteProduct"}
    /\ resp.status = 403
    /\ getUser(resp.session).plan = "premium"
    /\ RespProduct(resp) /= NoProduct
    /\ RespProduct(resp).restaurantId /= RespRestaurant(resp).id

(* C20, as claimed: the response to an update or a delete of a product id does
   not depend on the products of other restaurants.  A state in which another
   restaurant has a product with the id and a state in which no product has
   it are the same in all the requester owns, so the response to a request
   for an id outside the requester's restaurant is the one for an id that no
   product has, 404. *)
C20_ResponseIndependentOfOthers ==
    [][ ( /\ resp'.op \in {"putProduct", "deleteProduct"}
          /\ isAuthenticated(deserializeUser(resp'.session))
          /\ RespProduct(resp') \notin getProductsByRestaurant(RespRestaurant(resp').id) )
        => resp' = Reply(resp'.op, resp'.session, resp'.target, 404, "ProductNotFound")
      ]_vars

(* C20, amended: the response to an update or a delete of a product id outside
   the requester's restaurant depends on the other restaurants' products only
   through whether a product has the id: it is the 404 reply when none has,
   and otherwise the 403 reply, which carries no column of the product and not
   its restaurant; the products stay as they were. *)
C20_OnlyExistenceObservable ==
    [][ ( /\ resp'.op \in {"putProduct", "deleteProduct"}
          /\ isAuthenticated(deserializeUser(resp'.session))
          /\ RespProduct(resp') \notin getProductsByRestaurant(RespRestaurant(resp').id) )
        => ( /\ resp' = IF RespProduct(resp') = NoProduct
                        THEN Reply(resp'.op, resp'.session, resp'.target,
                                   404, "ProductNotFound")
                        ELSE Reply(resp'.op, resp'.session, resp'.target,
                                   403, "NotOwner")
             /\ products' = products ) ]_vars

\* A delete of another restaurant's inactive product was denied while the
\* requester's restaurant has a product of its own.
C20_Witness ==
    /\ resp.op = "deleteProduct"
    /\ resp.status = 403
    /\ RespProduct(resp) /= NoProduct
    /\ ~RespProduct(resp).isActive
    /\ RespProduct(resp).restaurantId /= RespRestaurant(resp).id
    /\ getProductsByRestaurant(RespRestaurant(resp).id) /= {}

-----------------------------------------------------------------------------
(* SpecGate: one owner, free or upgraded, filling one menu *)

InitGate ==
    /\ Registered
    /\ \/ /\ users = {FreeUser(1, "joe@x"), PremiumUser(2, "ana@x", 1)}
          /\ stripe = ProviderAfterUpgrades(<<"ana@x">>)
       \/ /\ users = {PremiumUser(1, "joe@x", 2), PremiumUser(2, "ana@x", 1)}
          /\ stripe = ProviderAfterUpgrades(<<"ana@x", "joe@x">>)

NextGate ==
    \/ \E b \in PlainBodies : PostProducts(1, b, MaxGateProducts)
    \/ \E id \in 1..MaxGateProducts, b \in PlainBodies : PutProduct(1, id, b)
    \/ \E id \in 1..MaxGateProducts : DeleteProduct(1, id)

SpecGate == InitGate /\ [][NextGate]_vars

(* C2: a product creation by a free identity whose restaurant has N active
   products is refused with the plan-limit outcome iff N >= 5 and passes the
   gate iff N < 5; a creation by a premium identity passes the gate for
   every N. *)
C2_PlanGate ==
    [][ resp'.op = "postProducts" =>
        LET user == getUser(resp'.session)
            N == getProductCount(RespRestaurant(resp').id)
        IN  /\ user.plan = "free" => (resp'.error = "PlanLimit" <=> N >= 5)
            /\ user.plan = "premium" => resp'.error /= "PlanLimit" ]_vars

\* A free identity at exactly 5 active products was refused by the plan gate.
C2_Witness ==
    /\ resp.op = "postProducts"
    /\ resp.error = "PlanLimit"
    /\ getUser(resp.session).plan = "free"
    /\ getProductCount(RespRestaurant(resp).id) = 5

\* A premium identity with 5 active products created a sixth.
C2_PremiumPasses ==
    /\ resp.op = "postProducts"
    /\ resp.status = 200
    /\ getUser(resp.session).plan = "premium"
    /\ getProductCount(RespRestaurant(resp).id) = 6

(* C4: in every state reached by product creates, updates and deletes handled
   one at a time, a restaurant whose owner is on the free plan has at most 5
   active products. *)
C4_FreeMenuAtMostFive ==
    \A r \in restaurants :
        getUser(r.userId).plan = "free" => getProductCount(r.id) <= 5

-----------------------------------------------------------------------------
(* SpecMenu: two owners filling menus that have categories, and the public *)
(* reading them                                                            *)

\* Restaurant 1 has categories 1 and 2, restaurant 2 has category 3.
MenuCategories ==
    { [id |-> 1, restaurantId |-> 1], [id |-> 2, restaurantId |-> 1],
      [id |-> 3, restaurantId |-> 2] }

\* "none", a category of each restaurant, and an id no category row has.
MenuCategoryInputs == {CatNone, CatRef(1), CatRef(3), CatRef(4)}

MenuPostBodies ==
    [valid : {TRUE}, isActive : {"true", "false"}, categoryId : MenuCategoryInputs]

\* Partial bodies that set one column.
MenuPutBodies ==
    [valid : {TRUE}, isActive : {"true", "false"}, categoryId : {CatAbsent}] \cup
    [valid : {TRUE}, isActive : {"absent"}, categoryId : MenuCategoryInputs]

InitMenu ==
    /\ users = {FreeUser(1, "joe@x"), PremiumUser(2, "ana@x", 1)}
    /\ stripe = ProviderAfterUpgrades(<<"ana@x">>)
    /\ restaurants = RegisteredRestaurants
    /\ categories = MenuCategories
    /\ products = {}
    /\ menuViews = <<>>
    /\ nextProductId = 1
    /\ nextCategoryId = 4
    /\ reqs = <<>>
    /\ uploads = {}
    /\ resp = NoResp

NextMenu ==
    \/ \E s \in UserIds, b \in MenuPostBodies : PostProducts(s, b, MaxMenuProducts)
    \/ \E s \in UserIds, id \in 1..MaxMenuProducts, b \in MenuPutBodies : PutProduct(s, id, b)
    \/ \E slug \in Slugs, f \in BOOLEAN : GetMenu(slug, f)

SpecMenu == InitMenu /\ [][NextMenu]_vars

(* C10: for a slug that resolves to restaurant R, the public menu holds
   exactly the products of R with isActive = TRUE (no inactive product, no
   product of another restaurant) and every category of R, also those with no
   active product; a slug that resolves to no restaurant is answered 404.  The
   one other answer is the 500 of a failed storage call. *)
C10_PublicMenu ==
    resp.op = "getMenu" =>
        LET R == getRestaurantBySlug(resp.slug)
        IN  IF R = NoRestaurant
            THEN resp.status = 404
            ELSE \/ /\ resp.status = 200
                    /\ resp.restaurant = R.id
                    /\ resp.products =
                          {p \in products : p.restaurantId = R.id /\ p.isActive = TRUE}
                    /\ resp.categories = {c \in categories : c.restaurantId = R.id}
                 \/ resp.status = 500 /\ resp.error = "Database"

\* A menu was served while its restaurant had an active and an inactive product
\* and a category without any product.
C10_Witness ==
    /\ resp.op = "getMenu"
    /\ resp.status = 200
    /\ resp.products /= {}
    /\ \E p \in products : p.restaurantId = resp.restaurant /\ ~p.isActive
    /\ \E c \in resp.categories : \A p \in products : p.categoryId /= c.id

(* C18: every product whose categoryId is not null references a category of
   its own restaurant; a create or an update that names a category of another
   restaurant stores no such reference. *)
C18_CategoryOfSameRestaurant ==
    \A p \in products :
        p.categoryId /= NoId =>
            \E c \in categories : c.id = p.categoryId /\ c.restaurantId = p.restaurantId

(* C11: a GET /api/menu/:slug whose slug resolves to restaurant R and that is
   answered 200 inserts exactly one menu_views row, for R, so that the view
   count of R rises by one with each such call and no other count moves; a
   slug that resolves to no restaurant is answered 404 and inserts nothing.
   The one other step is the failed insert, which inserts nothing either. *)
C11_OneViewPerResolvedCall ==
    [][resp'.op = "getMenu" =>
          LET R == getRestaurantBySlug(resp'.slug)
          IN  IF R = NoRestaurant
              THEN resp'.status = 404 /\ menuViews' = menuViews
              ELSE \/ /\ resp'.status = 200
                      /\ menuViews' = Append(menuViews, R.id)
                      /\ Len(SelectSeq(menuViews', LAMBDA v : v = R.id))
                            = getMenuViewCount(R.id) + 1
                      /\ \A o \in restaurants \ {R} :
                            Len(SelectSeq(menuViews', LAMBDA v : v = o.id))
                               = getMenuViewCount(o.id)
                   \/ /\ resp'.failed = "recordMenuView"
                      /\ menuViews' = menuViews]_vars

\* Two calls for the same resolving slug were answered 200: the count is two.
C11_Witness ==
    /\ resp.op = "getMenu"
    /\ resp.status = 200
    /\ getMenuViewCount(resp.restaurant) = 2

(* C12: when the insert into menu_views fails during GET /api/menu/:slug for a
   slug that resolves, the request is still answered 200 with the restaurant,
   its active products and its categories. *)
C12_MenuServedWhenRecordingFails ==
    (resp.op = "getMenu" /\ resp.failed = "recordMenuView") =>
        LET R == getRestaurantBySlug(resp.slug)
        IN  /\ resp.status = 200
            /\ resp.restaurant = R.id
            /\ resp.products = {p \in products : p.restaurantId = R.id /\ p.isActive}
            /\ resp.categories = {c \in categories : c.restaurantId = R.id}

-----------------------------------------------------------------------------
(* The billing bridge: POST /api/create-subscription *)

\* The provider calls of the handler; each may throw.
ProviderCalls == {"retrieve", "customer", "product", "price", "subscription"}

\* Which call throws in one request, if any.
Failures == ProviderCalls \cup {"none"}

\* The subscriptions the provider holds for the customers of one email.
SubscriptionsOf(email) ==
    {k \in 1..Len(stripe.subscriptions) :
        stripe.customers[stripe.subscriptions[k].customer] = email}

\* The test on the recorded subscription dropped.
HasSubscription_Never(user) == FALSE

\* if (user.stripeSubscriptionId)
HasSubscription(user) == user.stripeSubscriptionId /= NoId

\* An update that marks the user premium as soon as the customer exists.
updateUser_SetsPremium(id, customerId) ==
    {IF u.id = id
     THEN [u EXCEPT !.stripeCustomerId = customerId, !.plan = "premium",
                    !.subscriptionStatus = "active"]
     ELSE u : u \in users}

\* storage.updateUser(id, { stripeCustomerId })
updateUser(id, customerId) ==
    {IF u.id = id THEN [u EXCEPT !.stripeCustomerId = customerId] ELSE u : u \in users}

\* storage.updateUserStripeInfo(id, customerId, subscriptionId)
updateUserStripeInfo(id, customerId, subscriptionId) ==
    {IF u.id = id
     THEN [u EXCEPT !.stripeCustomerId = customerId,
                    !.stripeSubscriptionId = subscriptionId,
                    !.plan = "premium",
                    !.subscriptionStatus = "active"]
     ELSE u : u \in users}

\* stripe.*.create, each returning the id of what it created.
WithCustomer(st, email) == [st EXCEPT !.customers = Append(@, email)]

WithProduct(st) == [st EXCEPT !.products = @ + 1]

WithPrice(st) == [st EXCEPT !.prices = @ + 1]

\* payment_behavior: 'default_incomplete'
WithSubscription(st, customerId) ==
    [st EXCEPT !.subscriptions = Append(@, [customer |-> customerId, status |-> "incomplete"])]

BillingFrame ==
    UNCHANGED <<restaurants, categories, products, menuViews,
                nextProductId, nextCategoryId, reqs, uploads>>

\* POST /api/create-subscription, run alone.  `fail`: the provider call that throws.
PostCreateSubscription(session, fail) ==
    LET user == deserializeUser(session)
        reply(status, error) == Reply("createSubscription", session, NoId, status, error)
        \* res.status(400).send({ error: { message: error.message } })
        caught == [reply(400, "ProviderFailure") EXCEPT !.failed = fail, !.message = fail]
        customerId == Len(stripe.customers) + 1
        subscriptionId == Len(stripe.subscriptions) + 1
        st1 == WithCustomer(stripe, user.email)
        st2 == WithProduct(st1)
        st3 == WithPrice(st2)
        st4 == WithSubscription(st3, customerId)
    IN  /\ BillingFrame
        /\ IF ~isAuthenticated(user)
           THEN resp' = reply(401, "Unauthenticated") /\ UNCHANGED <<users, stripe>>
           ELSE IF ~stripe.enabled
           THEN resp' = reply(503, "NoStripe") /\ UNCHANGED <<users, stripe>>
           ELSE IF HasSubscription(user)
           THEN /\ UNCHANGED <<users, stripe>>
                /\ IF fail = "retrieve"
                   \* the await is outside any try: the rejection is handled by
                   \* nobody and the handler writes no response
                   THEN resp' = [reply(0, "UnhandledRejection") EXCEPT !.failed = fail]
                   ELSE resp' = [reply(200, "none") EXCEPT
                                    !.subscriptionId = user.stripeSubscriptionId]
           ELSE IF user.email = ""
           THEN resp' = reply(0, "UnhandledRejection") /\ UNCHANGED <<users, stripe>>
           ELSE IF fail = "customer"
           THEN resp' = caught /\ UNCHANGED <<users, stripe>>
           ELSE /\ Len(stripe.customers) < MaxCustomers
                /\ IF fail = "product"
                   THEN /\ stripe' = st1
                        /\ users' = updateUser(user.id, customerId)
                        /\ resp' = caught
                   ELSE IF fail = "price"
                   THEN /\ stripe' = st2
                        /\ users' = updateUser(user.id, customerId)
                        /\ resp' = caught
                   ELSE IF fail = "subscription"
                   THEN /\ stripe' = st3
                        /\ users' = updateUser(user.id, customerId)
                        /\ resp' = caught
                   ELSE /\ stripe' = st4
                        /\ users' = updateUserStripeInfo(user.id, customerId, subscriptionId)
                        /\ resp' = [reply(200, "none") EXCEPT
                                       !.subscriptionId = subscriptionId,
                                       !.created = TRUE]

-----------------------------------------------------------------------------
(* SpecBilling: upgrade requests of two free users, handled one at a time *)

NoProvider(enabled) ==
    [enabled |-> enabled, customers |-> <<>>, products |-> 0, prices |-> 0,
     subscriptions |-> <<>>]

InitBilling ==
    /\ Registered
    /\ users = {FreeUser(1, "joe@x"), FreeUser(2, "ana@x")}
    /\ \E enabled \in BOOLEAN : stripe = NoProvider(enabled)

NextBilling ==
    \E s \in Sessions, f \in Failures : PostCreateSubscription(s, f)

SpecBilling == InitBilling /\ [][NextBilling]_vars

\* The users row of who sent the request the response answers, before it ran.
RespUser(r) == getUser(r.session)

(* C5: a create-subscription request by an identity whose earlier request
   completed (its subscription id is recorded) creates no customer, product,
   price or subscription at the provider, leaves exactly one subscription for
   the identity, and answers with the recorded subscription id, which is the
   id the first request answered with. *)
C5_UpgradeIdempotent ==
    [][ resp'.op = "createSubscription" /\ stripe.enabled =>
        /\ RespUser(resp').stripeSubscriptionId /= NoId =>
              /\ stripe' = stripe
              /\ Cardinality(SubscriptionsOf(RespUser(resp').email)) = 1
              /\ resp'.failed = "none" =>
                    /\ resp'.status = 200
                    /\ resp'.subscriptionId = RespUser(resp').stripeSubscriptionId
        /\ resp'.created =>
              \E u \in users' : /\ u.id = resp'.session
                                /\ u.stripeSubscriptionId = resp'.subscriptionId ]_vars

\* A second request was answered with the subscription id of the first.
C5_Witness ==
    /\ resp.op = "createSubscription"
    /\ resp.status = 200
    /\ ~resp.created
    /\ resp.subscriptionId = RespUser(resp).stripeSubscriptionId
    /\ Cardinality(SubscriptionsOf(RespUser(resp).email)) = 1

(* C7: a request that creates an incomplete subscription and records its
   customer id and subscription id leaves the identity's plan as it was. *)
C7_PlanKeptOnUpgrade ==
    [][ resp'.op = "createSubscription" /\ resp'.created =>
        \E u \in users' : u.id = resp'.session /\ u.plan = RespUser(resp').plan ]_vars

(* C8: a request creates a customer at the provider only when the identity has
   no recorded customer id; with a customer id and no subscription id recorded
   it creates no customer. *)
C8_CustomerReused ==
    [][ ( /\ resp'.op = "createSubscription"
          /\ RespUser(resp').stripeCustomerId /= NoId )
        => stripe'.customers = stripe.customers ]_vars

(* C9: every failure of a provider call, on the retrieve path and on the
   creation path, ends the request with the structured failure response that
   carries the provider's message. *)
C9_ProviderFailureStructured ==
    resp.op = "createSubscription" /\ resp.failed /= "none" =>
        /\ resp.status = 400
        /\ resp.error = "ProviderFailure"
        /\ resp.message = resp.failed

-----------------------------------------------------------------------------
(* Overlapping requests: a handler cut at its awaits *)

Requests == 1..MaxReqs

\* A request that has not arrived.  `user` is req.user, `restaurant`, `customerId`
\* and `subscriptionId` are the handler's locals, `status` is its response.
IdleReq ==
    [pc |-> "idle", session |-> NoId, user |-> NoUser, restaurant |-> NoRestaurant,
     body |-> InvalidBody, customerId |-> NoId, subscriptionId |-> NoId, status |-> 0]

Done(req, status) == [req EXCEPT !.pc = "done", !.status = status]

RaceFrame ==
    UNCHANGED <<restaurants, categories, menuViews, nextCategoryId, uploads, resp>>

-----------------------------------------------------------------------------
(* SpecCreateRace: POST /api/products requests that overlap, the free      *)
(* user's restaurant holding 4 active products                             *)

\* passport.session: await storage.getUser(id); then req.isAuthenticated().
CreateArrives(r, session, body) ==
    LET user == deserializeUser(session)
        req == [IdleReq EXCEPT !.session = session, !.user = user, !.body = body]
    IN  /\ reqs[r].pc = "idle"
        /\ reqs' = [reqs EXCEPT ![r] =
              IF ~isAuthenticated(user) THEN Done(req, 401)
              ELSE [req EXCEPT !.pc = "restaurant"]]
        /\ RaceFrame
        /\ UNCHANGED <<users, stripe, products, nextProductId>>

\* await storage.getRestaurantByUserId(req.user.id); then if (user.plan === 'free').
CreateReadsRestaurant(r) ==
    LET req == reqs[r]
        restaurant == getRestaurantByUserId(req.user.id)
    IN  /\ req.pc = "restaurant"
        /\ reqs' = [reqs EXCEPT ![r] =
              IF restaurant = NoRestaurant THEN Done(req, 404)
              ELSE [req EXCEPT !.restaurant = restaurant,
                               !.pc = IF req.user.plan = "free" THEN "count" ELSE "insert"]]
        /\ RaceFrame
        /\ UNCHANGED <<users, stripe, products, nextProductId>>

\* await storage.getProductCount(restaurant.id); then if (productCount >= 5).
CreateCounts(r) ==
    LET req == reqs[r]
    IN  /\ req.pc = "count"
        /\ reqs' = [reqs EXCEPT ![r] =
              IF PlanLimitReached(req.user, req.restaurant) THEN Done(req, 400)
              ELSE [req EXCEPT !.pc = "insert"]]
        /\ RaceFrame
        /\ UNCHANGED <<users, stripe, products, nextProductId>>

\* insertProductSchema.parse(req.body); await storage.createProduct(...).
CreateInserts(r) ==
    LET req == reqs[r]
        categoryId == CategoryColumn(req.body, NoId)
        row == [id |-> nextProductId, restaurantId |-> req.restaurant.id,
                categoryId |-> categoryId, isActive |-> ActiveColumn(req.body, TRUE)]
    IN  /\ req.pc = "insert"
        /\ IF ~req.body.valid \/ ~ForeignKeyOk(categoryId)
           THEN /\ reqs' = [reqs EXCEPT ![r] = Done(req, 400)]
                /\ UNCHANGED <<products, nextProductId>>
           ELSE /\ products' = products \cup {row}
                /\ nextProductId' = nextProductId + 1
                /\ reqs' = [reqs EXCEPT ![r] = Done(req, 200)]
        /\ RaceFrame
        /\ UNCHANGED <<users, stripe>>

\* Four sequential creations by user 1.
FourActiveProducts ==
    {[id |-> k, restaurantId |-> 1, categoryId |-> NoId, isActive |-> TRUE] : k \in 1..4}

RaceBodies ==
    {InvalidBody} \cup
    [valid : {TRUE}, isActive : {"absent", "false"}, categoryId : {CatAbsent}]

InitCreateRace ==
    /\ users = {FreeUser(1, "joe@x"), PremiumUser(2, "ana@x", 1)}
    /\ stripe = ProviderAfterUpgrades(<<"ana@x">>)
    /\ restaurants = RegisteredRestaurants
    /\ categories = {}
    /\ products = FourActiveProducts
    /\ menuViews = <<>>
    /\ nextProductId = 5
    /\ nextCategoryId = 1
    /\ reqs = [r \in Requests |-> IdleReq]
    /\ uploads = {}
    /\ resp = NoResp

NextCreateRace ==
    \/ \E r \in Requests, s \in Sessions, b \in RaceBodies : CreateArrives(r, s, b)
    \/ \E r \in Requests : CreateReadsRestaurant(r)
    \/ \E r \in Requests : CreateCounts(r)
    \/ \E r \in Requests : CreateInserts(r)

SpecCreateRace == InitCreateRace /\ [][NextCreateRace]_vars

\* The requests of the free user that were answered 200 to a body creating an
\* active product.
Admitted ==
    {r \in Requests : /\ reqs[r].pc = "done"
                      /\ reqs[r].status = 200
                      /\ reqs[r].session = 1
                      /\ ActiveColumn(reqs[r].body, TRUE)}

(* C3: of the overlapping creations of an active product for the free
   restaurant that holds 4 active products, at most one succeeds, and the
   restaurant never holds more than 5 active products. *)
C3_AtMostOneAdmitted ==
    /\ Cardinality(Admitted) <= 1
    /\ getProductCount(1) <= 5

-----------------------------------------------------------------------------
(* SpecUpgradeRace: POST /api/create-subscription requests that overlap,   *)
(* the provider answering every call                                       *)

UpgradeFrame ==
    UNCHANGED <<restaurants, categories, products, menuViews,
                nextProductId, nextCategoryId, uploads, resp>>

\* passport.session: await storage.getUser(id); the checks up to the first await.
UpgradeArrives(r, session) ==
    LET user == deserializeUser(session)
        req == [IdleReq EXCEPT !.session = session, !.user = user]
    IN  /\ reqs[r].pc = "idle"
        /\ reqs' = [reqs EXCEPT ![r] =
              IF ~isAuthenticated(user) THEN Done(req, 401)
              ELSE IF ~stripe.enabled THEN Done(req, 503)
              ELSE IF HasSubscription(user) THEN [req EXCEPT !.pc = "retrieve"]
              ELSE [req EXCEPT !.pc = "customer"]]
        /\ UpgradeFrame
        /\ UNCHANGED <<users, stripe>>

\* await stripe.subscriptions.retrieve(user.stripeSubscriptionId); res.send(...).
UpgradeRetrieves(r) ==
    LET req == reqs[r]
    IN  /\ req.pc = "retrieve"
        /\ reqs' = [reqs EXCEPT ![r] =
              [Done(req, 200) EXCEPT !.subscriptionId = req.user.stripeSubscriptionId]]
        /\ UpgradeFrame
        /\ UNCHANGED <<users, stripe>>

\* await stripe.customers.create(...).
UpgradeCreatesCustomer(r) ==
    LET req == reqs[r]
    IN  /\ req.pc = "customer"
        /\ Len(stripe.customers) < MaxCustomers
        /\ stripe' = WithCustomer(stripe, req.user.email)
        /\ reqs' = [reqs EXCEPT ![r] =
              [req EXCEPT !.customerId = Len(stripe.customers) + 1, !.pc = "saveCustomer"]]
        /\ UpgradeFrame
        /\ UNCHANGED users

\* user = await storage.updateUser(user.id, { stripeCustomerId: customer.id }).
UpgradeSavesCustomer(r) ==
    LET req == reqs[r]
        saved == updateUser(req.user.id, req.customerId)
    IN  /\ req.pc = "saveCustomer"
        /\ users' = saved
        /\ reqs' = [reqs EXCEPT ![r] =
              [req EXCEPT !.user = CHOOSE u \in saved : u.id = req.user.id,
                          !.pc = "product"]]
        /\ UpgradeFrame
        /\ UNCHANGED stripe

\* await stripe.products.create(...).
UpgradeCreatesProduct(r) ==
    /\ reqs[r].pc = "product"
    /\ stripe' = WithProduct(stripe)
    /\ reqs' = [reqs EXCEPT ![r].pc = "price"]
    /\ UpgradeFrame
    /\ UNCHANGED users

\* await stripe.prices.create(...).
UpgradeCreatesPrice(r) ==
    /\ reqs[r].pc = "price"
    /\ stripe' = WithPrice(stripe)
    /\ reqs' = [reqs EXCEPT ![r].pc = "subscription"]
    /\ UpgradeFrame
    /\ UNCHANGED users

\* await stripe.subscriptions.create({ customer: customer.id, ... }).
UpgradeCreatesSubscription(r) ==
    LET req == reqs[r]
    IN  /\ req.pc = "subscription"
        /\ stripe' = WithSubscription(stripe, req.customerId)
        /\ reqs' = [reqs EXCEPT ![r] =
              [req EXCEPT !.subscriptionId = Len(stripe.subscriptions) + 1,
                          !.pc = "saveSubscription"]]
        /\ UpgradeFrame
        /\ UNCHANGED users

\* await storage.updateUserStripeInfo(user.id, customer.id, subscription.id); res.send(...).
UpgradeSavesSubscription(r) ==
    LET req == reqs[r]
    IN  /\ req.pc = "saveSubscription"
        /\ users' = updateUserStripeInfo(req.user.id, req.customerId, req.subscriptionId)
        /\ reqs' = [reqs EXCEPT ![r] = Done(req, 200)]
        /\ UpgradeFrame
        /\ UNCHANGED stripe

InitUpgradeRace ==
    /\ users = {FreeUser(1, "joe@x"), FreeUser(2, "ana@x")}
    /\ stripe = NoProvider(TRUE)
    /\ restaurants = RegisteredRestaurants
    /\ categories = {}
    /\ products = {}
    /\ menuViews = <<>>
    /\ nextProductId = 1
    /\ nextCategoryId = 1
    /\ reqs = [r \in Requests |-> IdleReq]
    /\ uploads = {}
    /\ resp = NoResp

NextUpgradeRace ==
    \/ \E r \in Requests, s \in Sessions : UpgradeArrives(r, s)
    \/ \E r \in Requests : UpgradeRetrieves(r)
    \/ \E r \in Requests : UpgradeCreatesCustomer(r)
    \/ \E r \in Requests : UpgradeSavesCustomer(r)
    \/ \E r \in Requests : UpgradeCreatesProduct(r)
    \/ \E r \in Requests : UpgradeCreatesPrice(r)
    \/ \E r \in Requests : UpgradeCreatesSubscription(r)
    \/ \E r \in Requests : UpgradeSavesSubscription(r)

SpecUpgradeRace == InitUpgradeRace /\ [][NextUpgradeRace]_vars

(* C6: under every interleaving of create-subscription requests, the provider
   holds at most one subscription for an identity. *)
C6_AtMostOneSubscription ==
    \A u \in users : Cardinality(SubscriptionsOf(u.email)) <= 1

-----------------------------------------------------------------------------
(* Registration and the restaurant of an identity: POST /api/register and *)
(* PUT /api/restaurant                                                    *)

\* A column of a request body: left out, or given with a value.
FieldAbsent == [tag |-> "absent", value |-> <<>>]

Field(value) == [tag |-> "set", value |-> value]

\* A body of PUT /api/restaurant as insertRestaurantSchema.partial() reads it:
\* the schema omits id, userId, createdAt and updatedAt, so name and slug are
\* both columns a body may carry.  `valid`: the parse succeeds.
RestaurantBody(name, slug, valid) == [name |-> name, slug |-> slug, valid |-> valid]

\* The table without its constraint on slug.
SlugUnique_NoConstraint(slug, exceptId) == TRUE

\* restaurants.slug is unique: a row may take `slug` when no other row has it.
SlugUnique(slug, exceptId) ==
    \A r \in restaurants : r.id /= exceptId => r.slug /= slug

getUserByEmail(email) ==
    IF \E u \in users : u.email = email
    THEN CHOOSE u \in users : u.email = email
    ELSE NoUser

RegisterFrame ==
    UNCHANGED <<categories, products, menuViews, nextProductId, nextCategoryId,
                stripe, reqs, uploads>>

\* A body of POST /api/register as insertUserSchema.extend({restaurantName})
\* reads it: the schema omits id and createdAt only, so a body may carry a plan
\* ("absent" when it does not).  `valid`: the parse succeeds.
RegisterBody(email, restaurantName, plan, valid) ==
    [email |-> email, restaurantName |-> restaurantName, plan |-> plan, valid |-> valid]

\* A registration that stores the plan of the body.
NewUser_BodyPlan(id, body) ==
    [FreeUser(id, body.email) EXCEPT
        !.plan = IF body.plan = "absent" THEN "free" ELSE body.plan]

\* storage.createUser({ email: data.email, password: hashedPassword, plan: "free" })
NewUser(id, body) == FreeUser(id, body.email)

\* POST /api/register.  restaurantName has min(1).
\* createUser and createRestaurant are two statements with no transaction: the
\* user row stays when the insert of the restaurant is refused.
PostRegister(body, cap) ==
    LET email == body.email
        restaurantName == body.restaurantName
        valid == body.valid
        user == NewUser(Cardinality(users) + 1, body)
        restaurant ==
            RegisteredRestaurant(Cardinality(restaurants) + 1, user.id, restaurantName)
        reply(status, error) == Reply("register", NoId, NoId, status, error)
    IN  /\ RegisterFrame
        /\ IF ~valid \/ restaurantName = <<>>
           THEN resp' = reply(400, "Validation") /\ UNCHANGED <<users, restaurants>>
           ELSE IF getUserByEmail(email) /= NoUser
           THEN resp' = reply(400, "EmailInUse") /\ UNCHANGED <<users, restaurants>>
           ELSE /\ Cardinality(users) < cap
                /\ users' = users \cup {user}
                /\ IF ~SlugUnique(restaurant.slug, NoId)
                   THEN /\ resp' = [reply(400, "Database") EXCEPT
                                       !.failed = "createRestaurant",
                                       !.slug = restaurant.slug]
                        /\ UNCHANGED restaurants
                   ELSE /\ restaurants' = restaurants \cup {restaurant}
                        /\ resp' = [reply(200, "none") EXCEPT
                                       !.target = user.id,
                                       !.restaurant = restaurant.id,
                                       !.slug = restaurant.slug]

\* POST /api/register with a body of e-mail, password and restaurantName.
Register(email, restaurantName, valid, cap) ==
    PostRegister(RegisterBody(email, restaurantName, "absent", valid), cap)

\* PUT /api/restaurant: if (data.name) data.slug = generateSlug(data.name), then
\* one update statement, which the constraint on slug may refuse.
PutRestaurant(session, body) ==
    LET user == deserializeUser(session)
        restaurant == getRestaurantByUserId(user.id)
        name == IF body.name.tag = "set" THEN body.name.value ELSE restaurant.name
        slug == IF body.name.tag = "set" /\ body.name.value /= <<>>
                THEN generateSlug(body.name.value)
                ELSE IF body.slug.tag = "set" THEN body.slug.value
                ELSE restaurant.slug
        row == [restaurant EXCEPT !.name = name, !.slug = slug]
        reply(status, error) ==
            [Reply("putRestaurant", session, NoId, status, error) EXCEPT
                !.restaurant = restaurant.id]
    IN  /\ RegisterFrame
        /\ UNCHANGED users
        /\ IF ~isAuthenticated(user)
           THEN resp' = reply(401, "Unauthenticated") /\ UNCHANGED restaurants
           ELSE IF restaurant = NoRestaurant
           THEN resp' = reply(404, "RestaurantNotFound") /\ UNCHANGED restaurants
           ELSE IF ~body.valid
           THEN resp' = reply(400, "Validation") /\ UNCHANGED restaurants
           ELSE IF ~SlugUnique(row.slug, restaurant.id)
           THEN /\ resp' = [reply(400, "Database") EXCEPT
                               !.failed = "updateRestaurant", !.slug = row.slug]
                /\ UNCHANGED restaurants
           ELSE /\ restaurants' = (restaurants \ {restaurant}) \cup {row}
                /\ resp' = [reply(200, "none") EXCEPT !.slug = row.slug]

\* The database before any registration.
Unregistered ==
    /\ categories = {}
    /\ products = {}
    /\ menuViews = <<>>
    /\ nextProductId = 1
    /\ nextCategoryId = 1
    /\ stripe = NoProvider(TRUE)
    /\ reqs = <<>>
    /\ uploads = {}
    /\ resp = NoResp

-----------------------------------------------------------------------------
(* SpecSlug: one restaurant registered under any name of a bounded set, *)
(* then renamed to any other                                             *)

\* A lower-case letter, a capital, a digit, a blank, a hyphen, a special character.
SlugAlphabet == {"a", "B", "1", " ", "-", "'"}

Names ==
    UNION {[1..n -> SlugAlphabet] : n \in 1..MaxNameLen} \cup {JoesDinerPadded}

InitSlug ==
    /\ Unregistered
    /\ users = {FreeUser(1, "joe@x")}
    /\ \E name \in Names : restaurants = {RegisteredRestaurant(1, 1, name)}

NextSlug ==
    \E name \in Names : PutRestaurant(1, RestaurantBody(Field(name), FieldAbsent, TRUE))

SpecSlug == InitSlug /\ [][NextSlug]_vars

(* C13: the slug generateSlug gives a name is the name in lower case, without
   the characters outside a-z, 0-9, white space and '-', with each run of white
   space turned into one '-', each run of '-' collapsed to one, and without
   leading and trailing '-'; so the slug of "Joe's Diner  " is "joes-diner",
   with no trailing hyphen. *)
C13_SlugIsReferenceSlug ==
    LET reference(name) ==
            trimChars(replaceRuns(replaceRuns(removeSpecialChars(toLowerCase(name)),
                                              Whitespace, "-"),
                                  Hyphen, "-"),
                      Hyphen)
    IN  \A r \in restaurants :
            /\ r.slug = reference(r.name)
            /\ r.name = JoesDinerPadded =>
                  r.slug = <<"j", "o", "e", "s", "-", "d", "i", "n", "e", "r">>

-----------------------------------------------------------------------------
(* SpecRegister: registrations and restaurant updates from an empty       *)
(* database, handled one at a time                                        *)

Emails == {"joe@x", "ana@x", "bob@x"}

\* Names of which the first two give the same slug.
RegisterNames == {<<"J", "o">>, <<"j", "o">>, <<"A">>}

\* Bodies of PUT /api/restaurant: a name, an empty name, a slug without a name,
\* a name and a slug, neither, and one that does not parse.
RestaurantBodies ==
    {RestaurantBody(Field(n), FieldAbsent, TRUE) : n \in RegisterNames \cup {<<>>}}
    \cup {RestaurantBody(FieldAbsent, Field(<<"x">>), TRUE),
          RestaurantBody(FieldAbsent, Field(<<"a">>), TRUE),
          RestaurantBody(Field(<<"A">>), Field(<<"x">>), TRUE),
          RestaurantBody(FieldAbsent, FieldAbsent, TRUE),
          RestaurantBody(FieldAbsent, FieldAbsent, FALSE)}

\* Whoever sends a request: a session of a user that may exist, or no session.
RegisterSessions == 0..MaxUsers

InitRegister ==
    /\ Unregistered
    /\ users = {}
    /\ restaurants = {}

NextRegister ==
    \/ \E e \in Emails, n \in RegisterNames, v \in BOOLEAN : Register(e, n, v, MaxUsers)
    \/ \E s \in RegisterSessions, b \in RestaurantBodies : PutRestaurant(s, b)

SpecRegister == InitRegister /\ [][NextRegister]_vars

(* C14: in every state reached by registrations and restaurant updates the
   slug of each restaurant is generateSlug of its current name; no request
   sets the slug apart from the name. *)
C14_SlugDerivedFromName ==
    \A r \in restaurants : r.slug = generateSlug(r.name)

(* C15: no two restaurants have the same slug.  A registration or a restaurant
   update that reaches its write with a slug another restaurant has is
   answered 400, and leaves every row of restaurants as it was: the rejected
   update changes neither the name nor the slug of the requester's restaurant
   nor any other restaurant, the rejected registration inserts none. *)
C15_SlugUnique ==
    /\ [](\A a, b \in restaurants : a.slug = b.slug => a = b)
    /\ [][ ( /\ resp'.op \in {"register", "putRestaurant"}
             /\ resp'.error \in {"none", "Database"}
             /\ \E r \in restaurants : r.id /= resp'.restaurant /\ r.slug = resp'.slug )
           => ( /\ resp'.status = 400
                /\ restaurants' = restaurants ) ]_vars

\* An update was refused for its slug while two restaurants exist.
C15_Witness ==
    /\ resp.op = "putRestaurant"
    /\ resp.failed = "updateRestaurant"
    /\ Cardinality(restaurants) = 2
    /\ \E r \in restaurants : r.id /= resp.restaurant /\ r.slug = resp.slug

(* C16: registration creates the identity and its restaurant together: after
   any register request, answered 200 or not, every stored identity has
   exactly one restaurant. *)
C16_RegistrationAtomic ==
    \A u \in users : Cardinality({r \in restaurants : r.userId = u.id}) = 1

-----------------------------------------------------------------------------
(* SpecOrphan: the two registered restaurants and their products, and a    *)
(* third registration, which leaves an identity without a restaurant when *)
(* its name gives the slug of a registered one                             *)

\* The id the users row of the third registration gets.
ThirdUser == Cardinality(UserIds) + 1

OrphanSessions == Sessions \cup {ThirdUser}

InitOrphan ==
    /\ Registered
    /\ users = {FreeUser(1, "joe@x"), PremiumUser(2, "ana@x", 1)}
    /\ stripe = ProviderAfterUpgrades(<<"ana@x">>)

NextOrphan ==
    \/ \E n \in {JoesDiner, <<"A">>} : Register("bob@x", n, TRUE, ThirdUser)
    \/ \E s \in OrphanSessions, b \in PlainBodies : PostProducts(s, b, MaxProducts)
    \/ \E s \in OrphanSessions, id \in 1..MaxProducts, b \in PlainBodies :
          PutProduct(s, id, b)
    \/ \E s \in OrphanSessions, id \in 1..MaxProducts : DeleteProduct(s, id)
    \/ \E s \in OrphanSessions, v \in BOOLEAN : PostCategories(s, v)
    \/ \E s \in OrphanSessions :
          PutRestaurant(s, RestaurantBody(FieldAbsent, FieldAbsent, TRUE))

SpecOrphan == InitOrphan /\ [][NextOrphan]_vars

(* C17: a request of an authenticated identity that owns no restaurant, for an
   operation on a restaurant's data, is answered with a not-found outcome (404)
   and never with the not-owner outcome; so an update or a delete of an
   existing product by such an identity is not answered 403. *)
C17_NoRestaurantIsNotFound ==
    [][ ( /\ resp'.op \in {"postProducts", "putProduct", "deleteProduct",
                            "postCategories", "putRestaurant"}
          /\ isAuthenticated(deserializeUser(resp'.session))
          /\ RespRestaurant(resp') = NoRestaurant )
        => ( /\ resp'.status = 404
             /\ resp'.error /= "NotOwner" ) ]_vars

-----------------------------------------------------------------------------
(* SpecCategory: products created with a category, and categories deleted *)

\* The foreign key with ON DELETE CASCADE in the place of SET NULL.
OnDeleteSetNull_Cascade(categoryId) ==
    {p \in products : p.categoryId /= categoryId}

\* products.category_id references categories.id ON DELETE SET NULL: the rows
\* that reference the deleted category keep every other column.
OnDeleteSetNull(categoryId) ==
    {IF p.categoryId = categoryId THEN [p EXCEPT !.categoryId = NoId] ELSE p :
        p \in products}

\* storage.deleteCategory(id): one delete statement on categories.  No route
\* calls it, so no response is sent: resp names the call.
deleteCategory(id) ==
    /\ CatalogFrame
    /\ UNCHANGED <<menuViews, nextProductId, nextCategoryId, uploads>>
    /\ resp' = Reply("deleteCategory", NoId, id, 0, "none")
    /\ IF \E c \in categories : c.id = id
       THEN /\ categories' = {c \in categories : c.id /= id}
            /\ products' = OnDeleteSetNull(id)
       ELSE UNCHANGED <<categories, products>>

\* Every product of this specification is created with a category.
CategoryPostBodies ==
    [valid : {TRUE}, isActive : {"true", "false"},
     categoryId : {CatRef(1), CatRef(2), CatRef(3)}]

InitCategory == InitMenu

NextCategory ==
    \/ \E s \in UserIds, b \in CategoryPostBodies : PostProducts(s, b, MaxMenuProducts)
    \/ \E id \in 1..nextCategoryId : deleteCategory(id)

SpecCategory == InitCategory /\ [][NextCategory]_vars

(* C19: deleting a category removes that category and nothing else: the other
   categories stay, no product is deleted, and every product keeps its id, its
   restaurant and its isActive, with categoryId null when it referenced the
   deleted category and as it was otherwise. *)
C19_DeleteCategoryKeepsProducts ==
    [][ resp'.op = "deleteCategory" =>
          /\ categories' = {c \in categories : c.id /= resp'.target}
          /\ Cardinality(products') = Cardinality(products)
          /\ \A p \in products :
                \E q \in products' :
                    /\ q.id = p.id
                    /\ q.restaurantId = p.restaurantId
                    /\ q.isActive = p.isActive
                    /\ q.categoryId = IF p.categoryId = resp'.target
                                      THEN NoId ELSE p.categoryId ]_vars

\* A category was deleted; a product that referenced it is still there, with a
\* null categoryId, next to a product that keeps its category.
C19_Witness ==
    /\ resp.op = "deleteCategory"
    /\ \A c \in categories : c.id /= resp.target
    /\ \E p \in products : p.categoryId = NoId
    /\ \E p \in products : p.categoryId /= NoId

-----------------------------------------------------------------------------
(* The handlers that read, and POST /api/upload *)

\* What a handler that only reads leaves alone.
ReadFrame ==
    UNCHANGED <<users, restaurants, categories, products, menuViews,
                nextProductId, nextCategoryId, stripe, reqs>>

\* POST /api/login: passport.authenticate('local').  `passwordOk`: bcrypt.compare.
Login(email, passwordOk) ==
    LET user == getUserByEmail(email)
    IN  /\ ReadFrame
        /\ UNCHANGED uploads
        /\ resp' = IF user = NoUser \/ ~passwordOk
                   THEN Reply("login", NoId, NoId, 401, "Unauthenticated")
                   ELSE Reply("login", NoId, user.id, 200, "none")

\* POST /api/logout.
Logout(session) ==
    /\ ReadFrame
    /\ UNCHANGED uploads
    /\ resp' = Reply("logout", session, NoId, 200, "none")

\* GET /api/me.
GetMe(session) ==
    LET user == deserializeUser(session)
    IN  /\ ReadFrame
        /\ UNCHANGED uploads
        /\ resp' = IF ~isAuthenticated(user)
                   THEN Reply("getMe", session, NoId, 401, "Unauthenticated")
                   ELSE Reply("getMe", session, user.id, 200, "none")

\* storage.getRestaurantByUserId((req.user as any).id)
RestaurantOf(session) == getRestaurantByUserId(deserializeUser(session).id)

\* The answer of a GET handler that reads the restaurant of req.user: 401, 404,
\* or 200 with `found`, the response built from the restaurant.
ReadRestaurant(op, session, found) ==
    LET user == deserializeUser(session)
        restaurant == RestaurantOf(session)
    IN  /\ ReadFrame
        /\ UNCHANGED uploads
        /\ resp' = IF ~isAuthenticated(user)
                   THEN Reply(op, session, NoId, 401, "Unauthenticated")
                   ELSE IF restaurant = NoRestaurant
                   THEN Reply(op, session, NoId, 404, "RestaurantNotFound")
                   ELSE [found EXCEPT !.op = op, !.session = session, !.status = 200,
                                      !.restaurant = restaurant.id]

\* GET /api/restaurant.
GetRestaurant(session) ==
    ReadRestaurant("getRestaurant", session,
                   [NoResp EXCEPT !.slug = RestaurantOf(session).slug])

\* GET /api/products.
GetProducts(session) ==
    ReadRestaurant("getProducts", session,
                   [NoResp EXCEPT
                       !.products = getProductsByRestaurant(RestaurantOf(session).id)])

\* GET /api/categories.
GetCategories(session) ==
    ReadRestaurant("getCategories", session,
                   [NoResp EXCEPT
                       !.categories = getCategoriesByRestaurant(RestaurantOf(session).id)])

\* GET /api/dashboard/stats: products, views, Math.floor(viewCount * 0.8), plan.
GetStats(session) ==
    ReadRestaurant("getStats", session,
                   [NoResp EXCEPT
                       !.stats = <<getProductCount(RestaurantOf(session).id),
                                   getMenuViewCount(RestaurantOf(session).id),
                                   (getMenuViewCount(RestaurantOf(session).id) * 8) \div 10,
                                   deserializeUser(session).plan>>])

\* POST /api/upload: upload.single('file'), then the handler.
PostUpload(session, file) ==
    LET user == deserializeUser(session)
        reply(status, error) == Reply("postUpload", session, NoId, status, error)
    IN  /\ ReadFrame
        /\ IF ~fileFilter(file)
           THEN resp' = reply(500, "Upload") /\ UNCHANGED uploads
           ELSE /\ Cardinality(diskStorage(file, "file")) <= MaxUploads
                /\ uploads' = diskStorage(file, "file")
                /\ resp' = IF ~isAuthenticated(user)
                           THEN reply(401, "Unauthenticated")
                           ELSE IF file = "none"
                           THEN reply(400, "NoFile")
                           ELSE [reply(200, "none") EXCEPT
                                    !.target = Cardinality(uploads) + 1]

\* `${req.protocol}://${req.get('host')}` of the requests.
Origin == <<"h", "t", "t", "p", ":", "/", "/", "h">>

\* `${origin}/menu/${restaurant.slug}`
menuUrl(origin, slug) ==
    origin \o <<"/", "m", "e", "n", "u", "/">> \o slug

\* GET /api/qr-code.
GetQrCode(session) ==
    ReadRestaurant("getQrCode", session,
                   [NoResp EXCEPT !.slug = RestaurantOf(session).slug,
                                  !.url = menuUrl(Origin, RestaurantOf(session).slug)])

-----------------------------------------------------------------------------
(* SpecApp: every handler, for requests of the first registered user and  *)
(* without a session, and the registration of a third user                *)

\* Every registration of this specification carries plan "premium" in its body.
AppRegisterBodies ==
    {RegisterBody("bob@x", <<"B", "o", "b">>, "premium", TRUE)}

AppSessions == {NoId, 1}

AppProductBodies ==
    [valid : BOOLEAN, isActive : {"absent"}, categoryId : {CatAbsent}]

InitApp ==
    /\ Registered
    /\ users = {FreeUser(1, "joe@x"), FreeUser(2, "ana@x")}
    /\ stripe = NoProvider(TRUE)

NextApp ==
    \/ \E b \in AppRegisterBodies : PostRegister(b, ThirdUser)
    \/ \E e \in {"joe@x", "nobody@x"}, ok \in BOOLEAN : Login(e, ok)
    \/ \E s \in AppSessions : Logout(s)
    \/ \E s \in AppSessions : GetMe(s)
    \/ \E s \in AppSessions : GetRestaurant(s)
    \/ \E s \in AppSessions :
          PutRestaurant(s, RestaurantBody(FieldAbsent, FieldAbsent, TRUE))
    \/ \E s \in AppSessions : GetProducts(s)
    \/ \E s \in AppSessions, b \in AppProductBodies : PostProducts(s, b, MaxAppProducts)
    \/ \E s \in AppSessions, id \in 1..MaxAppProducts, b \in AppProductBodies :
          PutProduct(s, id, b)
    \/ \E s \in AppSessions, id \in 1..MaxAppProducts : DeleteProduct(s, id)
    \/ \E s \in AppSessions : GetCategories(s)
    \/ \E s \in AppSessions : PostCategories(s, TRUE)
    \/ \E s \in AppSessions : GetStats(s)
    \/ \E s \in AppSessions : GetQrCode(s)
    \/ \E s \in AppSessions, f \in {"none", "image", "other"} : PostUpload(s, f)
    \/ \E slug \in Slugs : GetMenu(slug, FALSE)
    \/ \E s \in AppSessions : PostCreateSubscription(s, "none")

SpecApp == InitApp /\ [][NextApp]_vars

(* C21: an identity is created by registration with plan "free", whatever plan
   the body carries, and the plan of an existing identity changes only in a
   create-subscription request: no login, logout, restaurant, product,
   category, upload, stats, QR or public-menu request changes a plan. *)
C21_PlanChangedOnlyByBilling ==
    [][ /\ \A u \in users' :
              getUser(u.id) = NoUser => resp'.op = "register" /\ u.plan = "free"
        /\ (\E u \in users : \E v \in users' : v.id = u.id /\ v.plan /= u.plan)
              => resp'.op = "createSubscription" ]_vars

\* A registration with plan "premium" in its body was answered 200, the new
\* identity is on the free plan, and another identity is premium by its upgrade.
C21_Witness ==
    /\ resp.op = "register"
    /\ resp.status = 200
    /\ getUser(resp.target).plan = "free"
    /\ \E u \in users : u.plan = "premium"

-----------------------------------------------------------------------------
(* SpecCancel: a premium identity whose subscription the provider cancels, *)
(* with the server handling every request that keeps arriving              *)

\* The provider ends a subscription (cancelled by the customer, or expired).
\* No route of the server is called: nothing but the provider changes.
ProviderCancels(k) ==
    /\ k \in 1..Len(stripe.subscriptions)
    /\ stripe.subscriptions[k].status /= "canceled"
    /\ stripe' = [stripe EXCEPT !.subscriptions[k].status = "canceled"]
    /\ UNCHANGED <<users, restaurants, categories, products, menuViews,
                   nextProductId, nextCategoryId, reqs, uploads, resp>>

\* The recorded subscription of the user is cancelled at the provider.
Cancelled(user) ==
    /\ user.stripeSubscriptionId /= NoId
    /\ stripe.subscriptions[user.stripeSubscriptionId].status = "canceled"

InitCancel == Init

NextCancel ==
    \/ \E k \in 1..MaxCustomers : ProviderCancels(k)
    \/ \E s \in UserIds : PostCreateSubscription(s, "none")
    \/ \E s \in UserIds, b \in PlainBodies : PostProducts(s, b, MaxProducts)
    \/ \E s \in UserIds : GetStats(s)

\* Node handles a request that arrived: the server does not stop while a
\* request or the provider can act.
SpecCancel == InitCancel /\ [][NextCancel]_vars /\ WF_vars(NextCancel)

(* C22: when the subscription of a premium identity is cancelled at the
   provider, the identity is eventually on the free plan again (and the limit
   of five products applies to what it creates from then on). *)
C22_CancelledReturnsToFree ==
    \A id \in UserIds :
        (getUser(id).plan = "premium" /\ Cancelled(getUser(id)))
            ~> (getUser(id).plan = "free")

-----------------------------------------------------------------------------
(* SpecLists: the products and categories of two restaurants, listed by   *)
(* either owner and without a session                                     *)

ListPostBodies ==
    [valid : {TRUE}, isActive : {"true", "false"}, categoryId : {CatNone, CatRef(1)}]

InitLists == InitMenu

NextLists ==
    \/ \E s \in UserIds, b \in ListPostBodies : PostProducts(s, b, MaxMenuProducts)
    \/ \E s \in Sessions : GetProducts(s)
    \/ \E s \in Sessions : GetCategories(s)

SpecLists == InitLists /\ [][NextLists]_vars

(* C23: GET /api/products by an authenticated identity answers with exactly
   the products whose restaurant is the identity's restaurant, and GET
   /api/categories with exactly the categories of that restaurant; no row of
   another restaurant is in either answer. *)
C23_ListsTenantScoped ==
    LET R == RespRestaurant(resp)
    IN  /\ (resp.op \in {"getProducts", "getCategories"} /\ R /= NoRestaurant)
              => resp.status = 200
        /\ (resp.op = "getProducts" /\ resp.status = 200)
              => /\ resp.products = {p \in products : p.restaurantId = R.id}
                 /\ \A p \in resp.products : p.restaurantId = R.id
        /\ (resp.op = "getCategories" /\ resp.status = 200)
              => /\ resp.categories = {c \in categories : c.restaurantId = R.id}
                 /\ \A c \in resp.categories : c.restaurantId = R.id

\* The products of a restaurant were listed while the other restaurant has
\* products and categories too.
C23_Witness ==
    /\ resp.op = "getProducts"
    /\ resp.status = 200
    /\ resp.products /= {}
    /\ \E p \in products : p.restaurantId /= resp.restaurant
    /\ \E c \in categories : c.restaurantId /= resp.restaurant

-----------------------------------------------------------------------------
(* SpecProtected: the protected endpoints and the upload endpoint, called *)
(* with and without a session, with and without a file part               *)

ProtectedOps ==
    {"getRestaurant", "putRestaurant", "getProducts", "postProducts", "putProduct",
     "deleteProduct", "getCategories", "postCategories", "getStats", "getQrCode",
     "createSubscription"}

FileParts == {"none", "image", "other"}

ProtectedProductBodies ==
    [valid : BOOLEAN, isActive : {"absent"}, categoryId : {CatAbsent}, file : FileParts]

InitProtected == InitApp

NextProtected ==
    \/ \E s \in AppSessions : GetRestaurant(s)
    \/ \E s \in AppSessions :
          PutRestaurant(s, RestaurantBody(FieldAbsent, FieldAbsent, TRUE))
    \/ \E s \in AppSessions : GetProducts(s)
    \/ \E s \in AppSessions, b \in ProtectedProductBodies :
          PostProducts(s, b, MaxAppProducts)
    \/ \E s \in AppSessions, id \in 1..MaxAppProducts, b \in ProtectedProductBodies :
          PutProduct(s, id, b)
    \/ \E s \in AppSessions, id \in 1..MaxAppProducts : DeleteProduct(s, id)
    \/ \E s \in AppSessions : GetCategories(s)
    \/ \E s \in AppSessions : PostCategories(s, TRUE)
    \/ \E s \in AppSessions : GetStats(s)
    \/ \E s \in AppSessions : GetQrCode(s)
    \/ \E s \in AppSessions, f \in FileParts : PostUpload(s, f)
    \/ \E s \in AppSessions : PostCreateSubscription(s, "none")

SpecProtected == InitProtected /\ [][NextProtected]_vars

(* C24: every request without an authenticated identity to a protected
   endpoint is answered 401, leaves identities, restaurants, categories,
   products and menu views unchanged and makes no provider call. *)
C24_UnauthenticatedIs401 ==
    [][(resp'.op \in ProtectedOps /\ ~isAuthenticated(deserializeUser(resp'.session)))
          => /\ resp'.status = 401
             /\ UNCHANGED <<users, restaurants, categories, products, menuViews>>
             /\ UNCHANGED stripe]_vars

(* C29: a request to POST /api/upload or POST /api/products that is answered
   401 leaves the set of stored upload files unchanged. *)
C29_NoUploadWithoutIdentity ==
    [][(resp'.op \in {"postUpload", "postProducts"} /\ resp'.status = 401)
          => UNCHANGED uploads]_vars

-----------------------------------------------------------------------------
(* SpecQr: registrations and renamings, the QR code of each restaurant    *)
(* and the public menu behind its address                                 *)

\* app.get("/api/menu/:slug"): the path parameter is one segment of at least
\* one character.
MenuRouteMatches(slug) ==
    /\ slug /= <<>>
    /\ \A i \in 1..Len(slug) : slug[i] /= "/"

\* The restaurant GET /api/menu/{slug} answers with, NoRestaurant when the
\* request is not dispatched to the handler or the handler answers 404.
getPublicMenu(slug) ==
    IF MenuRouteMatches(slug) THEN getRestaurantBySlug(slug) ELSE NoRestaurant

QrNames == {<<"J", "o">>, <<"A">>, <<"!">>}

InitQr == InitRegister

NextQr ==
    \/ \E e \in Emails, n \in QrNames : Register(e, n, TRUE, MaxUsers)
    \/ \E s \in RegisterSessions, n \in QrNames :
          PutRestaurant(s, RestaurantBody(Field(n), FieldAbsent, TRUE))
    \/ \E s \in RegisterSessions : GetQrCode(s)
    \/ \E r \in restaurants : MenuRouteMatches(r.slug) /\ GetMenu(r.slug, FALSE)

SpecQr == InitQr /\ [][NextQr]_vars

(* C25: the menu URL answered by GET /api/qr-code is {origin}/menu/{slug}
   with the current slug of the caller's restaurant, and GET /api/menu/{slug}
   with that slug, in the same state, answers with that same restaurant. *)
C25_QrUrlResolvesToRestaurant ==
    (resp.op = "getQrCode" /\ resp.status = 200)
        => LET R == RespRestaurant(resp)
           IN  /\ resp.url = Origin \o <<"/", "m", "e", "n", "u", "/">> \o R.slug
               /\ getPublicMenu(R.slug) = R

-----------------------------------------------------------------------------
(* SpecRegisterRace: POST /api/register requests that overlap, one e-mail *)
(* registered already                                                     *)

\* The table without its constraint on email.
EmailUnique_NoConstraint(email) == TRUE

\* users.email is unique: an insert with `email` is refused when a row has it.
EmailUnique(email) == \A u \in users : u.email /= email

\* A registration that has not arrived.  `existingUser`, `user` and `restaurant`
\* are the handler's locals, `checked` tells that getUserByEmail has answered.
IdleRegistration ==
    [pc |-> "idle", body |-> RegisterBody("none", <<>>, "absent", FALSE),
     checked |-> FALSE, existingUser |-> NoUser, user |-> NoUser,
     restaurant |-> NoRestaurant, status |-> 0, error |-> "none"]

Rejected(req, error) == [req EXCEPT !.pc = "done", !.status = 400, !.error = error]

RegisterRaceFrame ==
    UNCHANGED <<categories, products, menuViews, nextProductId, nextCategoryId,
                stripe, uploads, resp>>

\* parse(req.body); await storage.getUserByEmail(data.email); if (existingUser).
RegisterChecksEmail(r, body) ==
    LET existingUser == getUserByEmail(body.email)
        req == [IdleRegistration EXCEPT !.body = body]
    IN  /\ reqs[r].pc = "idle"
        /\ reqs' = [reqs EXCEPT ![r] =
              IF ~body.valid \/ body.restaurantName = <<>>
              THEN Rejected(req, "Validation")
              ELSE IF existingUser /= NoUser
              THEN Rejected([req EXCEPT !.checked = TRUE, !.existingUser = existingUser],
                            "EmailInUse")
              ELSE [req EXCEPT !.checked = TRUE, !.pc = "createUser"]]
        /\ RegisterRaceFrame
        /\ UNCHANGED <<users, restaurants>>

\* await bcrypt.hash(...); await storage.createUser(...): the insert throws on
\* a duplicate e-mail and the catch answers 400.
RegisterCreatesUser(r) ==
    LET req == reqs[r]
        user == NewUser(Cardinality(users) + 1, req.body)
    IN  /\ req.pc = "createUser"
        /\ IF ~EmailUnique(req.body.email)
           THEN /\ reqs' = [reqs EXCEPT ![r] = Rejected(req, "Database")]
                /\ UNCHANGED users
           ELSE /\ users' = users \cup {user}
                /\ reqs' = [reqs EXCEPT ![r] =
                      [req EXCEPT !.user = user, !.pc = "createRestaurant"]]
        /\ RegisterRaceFrame
        /\ UNCHANGED restaurants

\* await storage.createRestaurant(...); req.login; res.json({user, restaurant}).
RegisterCreatesRestaurant(r) ==
    LET req == reqs[r]
        restaurant == RegisteredRestaurant(Cardinality(restaurants) + 1, req.user.id,
                                           req.body.restaurantName)
    IN  /\ req.pc = "createRestaurant"
        /\ IF ~SlugUnique(restaurant.slug, NoId)
           THEN /\ reqs' = [reqs EXCEPT ![r] = Rejected(req, "Database")]
                /\ UNCHANGED restaurants
           ELSE /\ restaurants' = restaurants \cup {restaurant}
                /\ reqs' = [reqs EXCEPT ![r] =
                      [req EXCEPT !.restaurant = restaurant, !.pc = "done",
                                  !.status = 200]]
        /\ RegisterRaceFrame
        /\ UNCHANGED users

RaceEmails == {"joe@x", "new@x"}

RaceNames == {<<"A">>, <<"B">>, JoesDiner}

RaceRegisterBodies ==
    {RegisterBody(e, n, "absent", v) : e \in RaceEmails, n \in RaceNames, v \in BOOLEAN}

InitRegisterRace ==
    /\ users = {FreeUser(1, "joe@x")}
    /\ restaurants = {RegisteredRestaurant(1, 1, JoesDiner)}
    /\ categories = {}
    /\ products = {}
    /\ menuViews = <<>>
    /\ nextProductId = 1
    /\ nextCategoryId = 1
    /\ stripe = NoProvider(TRUE)
    /\ reqs = [r \in Requests |-> IdleRegistration]
    /\ uploads = {}
    /\ resp = NoResp

NextRegisterRace ==
    \/ \E r \in Requests, b \in RaceRegisterBodies : RegisterChecksEmail(r, b)
    \/ \E r \in Requests : RegisterCreatesUser(r)
    \/ \E r \in Requests : RegisterCreatesRestaurant(r)

SpecRegisterRace == InitRegisterRace /\ [][NextRegisterRace]_vars

\* The registrations that found no user with their e-mail and went on to insert.
PassedCheck(email) ==
    {r \in Requests : /\ reqs[r].checked
                      /\ reqs[r].existingUser = NoUser
                      /\ reqs[r].body.email = email}

(* C26: under every interleaving of registrations at most one identity exists
   per e-mail: a registration whose e-mail is in use is rejected, and of the
   registrations with the same new e-mail that all passed the existing-e-mail
   check before any of them inserted, exactly one creates the identity. *)
C26_OneIdentityPerEmail ==
    /\ \A u1, u2 \in users : u1.email = u2.email => u1 = u2
    /\ \A r \in Requests :
          (reqs[r].pc = "done" /\ reqs[r].existingUser /= NoUser)
              => reqs[r].status = 400 /\ reqs[r].user = NoUser
    /\ \A e \in RaceEmails :
          (PassedCheck(e) /= {} /\ \A r \in PassedCheck(e) : reqs[r].pc = "done")
              => /\ Cardinality({u \in users : u.email = e}) = 1
                 /\ Cardinality({r \in PassedCheck(e) : reqs[r].user /= NoUser}) = 1

\* Two registrations of the same new e-mail both passed the check before either
\* inserted; one was answered 200 and the other 400.
C26_Witness ==
    \E r1, r2 \in Requests :
        /\ r1 /= r2
        /\ {r1, r2} \subseteq PassedCheck("new@x")
        /\ reqs[r1].pc = "done" /\ reqs[r1].status = 200
        /\ reqs[r2].pc = "done" /\ reqs[r2].status = 400 /\ reqs[r2].error = "Database"
        /\ reqs[r2].user = NoUser

-----------------------------------------------------------------------------
(* SpecOwner: creations and updates of products by both owners, with      *)
(* bodies that name a restaurant                                          *)

\* Bodies without a restaurantId, and bodies with the restaurantId of either
\* restaurant.
OwnerBodies ==
    [valid : BOOLEAN, isActive : {"absent", "true", "false"}, categoryId : {CatAbsent}]
    \cup [valid : BOOLEAN, isActive : {"absent", "true", "false"}, categoryId : {CatAbsent},
          restaurantId : {r.id : r \in RegisteredRestaurants}]

InitOwner == Init

NextOwner ==
    \/ \E s \in UserIds, b \in OwnerBodies : PostProducts(s, b, MaxProducts)
    \/ \E s \in UserIds, id \in 1..MaxProducts, b \in OwnerBodies : PutProduct(s, id, b)

SpecOwner == InitOwner /\ [][NextOwner]_vars

(* C27: a created product belongs to the restaurant of the identity that
   created it, whatever restaurantId the body carries, and no update changes
   the restaurantId of a product. *)
C27_RestaurantFixedAtCreation ==
    [][/\ (resp'.op = "postProducts" /\ resp'.status = 200)
            => /\ getProduct(resp'.target) = NoProduct
               /\ \E p \in products' :
                     /\ p.id = resp'.target
                     /\ p.restaurantId = RespRestaurant(resp').id
                     /\ products' = products \cup {p}
       /\ resp'.op = "putProduct"
            => \A p \in products : \E q \in products' :
                     q.id = p.id /\ q.restaurantId = p.restaurantId
       /\ restaurants' = restaurants]_vars

\* A product of the first restaurant was updated with a body that names the
\* second restaurant, after the second owner created one with a body that
\* names the first.
C27_Witness ==
    /\ resp.op = "putProduct"
    /\ resp.status = 200
    /\ resp.session = 1
    /\ getProduct(resp.target).restaurantId = 1
    /\ getProduct(resp.target).isActive = FALSE
    /\ \E p \in products : p.restaurantId = 2

-----------------------------------------------------------------------------
(* SpecReject: creations of products and categories, the free user's      *)
(* restaurant holding 4 active products                                   *)

RejectBodies == ProductBodies({CatAbsent, CatRef(1)})

InitReject ==
    /\ users = {FreeUser(1, "joe@x"), PremiumUser(2, "ana@x", 1)}
    /\ stripe = ProviderAfterUpgrades(<<"ana@x">>)
    /\ restaurants = RegisteredRestaurants
    /\ categories = {}
    /\ products = FourActiveProducts
    /\ menuViews = <<>>
    /\ nextProductId = 5
    /\ nextCategoryId = 1
    /\ reqs = <<>>
    /\ uploads = {}
    /\ resp = NoResp

NextReject ==
    \/ \E s \in UserIds, b \in RejectBodies : PostProducts(s, b, MaxGateProducts)
    \/ \E s \in UserIds, v \in BOOLEAN : PostCategories(s, v)

SpecReject == InitReject /\ [][NextReject]_vars

(* C28: a product creation that is rejected inserts no product and leaves
   every product and category as it was; the plan gate comes before input
   validation, so a creation for a free restaurant at the limit is refused
   with the plan-limit outcome whatever its body, and a validation outcome is
   given only below the limit. *)
C28_RejectedCreationChangesNothing ==
    [][resp'.op = "postProducts" =>
          LET user == getUser(resp'.session)
              atLimit == /\ user.plan = "free"
                         /\ getProductCount(RespRestaurant(resp').id) >= FreeProductLimit
          IN  /\ resp'.status /= 200
                   => /\ products' = products
                      /\ categories' = categories
                      /\ nextProductId' = nextProductId
              /\ atLimit => resp'.status = 400 /\ resp'.error = "PlanLimit"
              /\ resp'.error = "Validation" => resp'.status = 400 /\ ~atLimit]_vars

\* A creation was refused at the limit while the restaurant has a category.
C28_Witness ==
    /\ resp.op = "postProducts"
    /\ resp.session = 1
    /\ resp.status = 400
    /\ resp.error = "PlanLimit"
    /\ getProductCount(1) = FreeProductLimit
    /\ categories /= {}

-----------------------------------------------------------------------------
(* Failed upgrades, under SpecBilling *)

\* The columns of a users row that tell its plan.
PlanColumns(u) == <<u.plan, u.stripeSubscriptionId, u.subscriptionStatus>>

CreationSteps == {"customer", "product", "price", "subscription"}

(* C30: a create-subscription request that fails at the creation of the
   customer, the product, the price or the subscription leaves the plan, the
   subscription id and the subscription status of every identity as they
   were; these change only in a request whose subscription was created. *)
C30_FailedUpgradeKeepsPlan ==
    [][resp'.op = "createSubscription" =>
          /\ resp'.failed \in CreationSteps
                => /\ resp'.status = 400
                   /\ \A u \in users : \E v \in users' :
                         v.id = u.id /\ PlanColumns(v) = PlanColumns(u)
          /\ (\E u \in users, v \in users' : v.id = u.id /\ PlanColumns(v) /= PlanColumns(u))
                => /\ resp'.created
                   /\ Len(stripe'.subscriptions) = Len(stripe.subscriptions) + 1
                   /\ resp'.subscriptionId = Len(stripe'.subscriptions)]_vars

\* The creation of the subscription failed after the customer was recorded:
\* the identity is still free and has no subscription.
C30_Witness ==
    /\ resp.op = "createSubscription"
    /\ resp.failed = "subscription"
    /\ RespUser(resp).stripeCustomerId /= NoId
    /\ PlanColumns(RespUser(resp)) = <<"free", NoId, "null">>
    /\ \E u \in users : u.plan = "premium"

=============================================================================
